---- MODULE Spec2Model ----
(***************************************************************************)
(* Blobscan: the `index` mutation of the indexer router                     *)
(* (packages/api/src/router/indexer.ts) and the storage key of a blob.      *)
(*                                                                          *)
(* A text is a sequence of one-character strings. A request is one call of  *)
(* the `index` mutation; each action is one run of the handler between two  *)
(* awaits, together with the promise reactions that run in the same tick.   *)
(***************************************************************************)
EXTENDS Integers, Sequences, FiniteSets, TLC

\* ------------------------------------------------------------------ texts

Undefined == "undefined"

DigitChar == <<"0", "1", "2", "3", "4", "5", "6", "7", "8", "9">>

HexChars == {"0", "1", "2", "3", "4", "5", "6", "7", "8", "9",
             "a", "b", "c", "d", "e", "f"}

Min(a, b) == IF a < b THEN a ELSE b

\* String.prototype.slice(from, to) with 0-based, end-exclusive, clamped indices.
Slice(s, from, to) == SubSeq(s, Min(from, Len(s)) + 1, Min(to, Len(s)))

\* The decimal text a template literal gives a non-negative number.
RECURSIVE NumberToString(_)
NumberToString(n) ==
    IF n < 10 THEN <<DigitChar[n + 1]>>
    ELSE NumberToString(n \div 10) \o <<DigitChar[(n % 10) + 1]>>

\* ------------------------------------------------------------ storage key

\* A storage key built with the first shard taken from the 0x prefix.
buildBlobFileNameKeepPrefix(chainIdText, hash) ==
    chainIdText \o <<"/">> \o Slice(hash, 0, 2) \o <<"/">> \o Slice(hash, 2, 4)
        \o <<"/">> \o Slice(hash, 4, 6) \o <<"/">> \o Slice(hash, 2, Len(hash))
        \o <<".", "t", "x", "t">>

\* `${chainId}/${hash.slice(2, 4)}/${hash.slice(4, 6)}/${hash.slice(6, 8)}/${hash.slice(2)}.txt`
buildBlobFileName(chainIdText, hash) ==
    chainIdText \o <<"/">> \o Slice(hash, 2, 4) \o <<"/">> \o Slice(hash, 4, 6)
        \o <<"/">> \o Slice(hash, 6, 8) \o <<"/">> \o Slice(hash, 2, Len(hash))
        \o <<".", "t", "x", "t">>

\* GoogleStorage.storeBlob(chainId, versionedHash, data) returns the file name.
storeBlobKey(chainId, versionedHash) ==
    buildBlobFileName(NumberToString(chainId), versionedHash)

\* Blob hashes of the model: 0x followed by eight hex characters.
H1 == <<"0", "x", "0", "1", "0", "0", "e", "a", "c", "8">>
H2 == <<"0", "x", "0", "1", "0", "0", "e", "a", "1", "1">>
H3 == <<"0", "x", "0", "1", "a", "a", "1", "1", "2", "2">>

\* BLOB_HASH of the storage tests, from the snapshot of storeBlob.
BLOB_HASH ==
    <<"0", "x",
      "0", "1", "0", "0", "e", "a", "c", "8", "8", "0", "c", "7", "1", "2", "d", "b",
      "a", "4", "3", "4", "6", "c", "8", "8", "a", "b", "5", "6", "4", "f", "a", "1",
      "b", "7", "9", "0", "2", "4", "1", "0", "6", "f", "7", "8", "f", "7", "3", "2",
      "c", "c", "a", "4", "9", "d", "8", "a", "6", "8", "e", "4", "c", "1", "7", "4">>

\* env.CHAIN_ID of the storage tests, as the text the snapshot starts with.
TEST_CHAIN_ID_TEXT == <<"7", "0", "1", "1", "8", "9", "3", "0", "5", "5", "8">>

\* The inline snapshot of "storeBlob should return the correct file".
FILE_SNAPSHOT ==
    TEST_CHAIN_ID_TEXT \o <<"/", "0", "1", "/", "0", "0", "/", "e", "a", "/">>
        \o SubSeq(BLOB_HASH, 3, Len(BLOB_HASH)) \o <<".", "t", "x", "t">>

\* ------------------------------------------------------------------ inputs

\* Largest number of blobs in the inputs of all index requests together.
MaxBlobs == 2

\* The concurrent calls of the index mutation.
Requests == {"r1", "r2"}

\* Blob data: 0x-prefixed hex text.
D1 == <<"0", "x", "a", "a", "b", "b">>
D2 == <<"0", "x", "c", "c">>

\* input.blobs entries. B1x carries the hash of B1 with other bytes: the request
\* schema takes any string as data.
B1 == [versionedHash |-> H1, data |-> D1]
B2 == [versionedHash |-> H2, data |-> D2]
B3 == [versionedHash |-> H3, data |-> D1]
B1x == [versionedHash |-> H1, data |-> D2]

BlobUniverse == {B1, B2, B3, B1x}

\* Sequences of at most n blobs with pairwise distinct hashes.
RECURSIVE BlobSeqs(_)
BlobSeqs(n) ==
    IF n = 0 THEN {<<>>}
    ELSE LET shorter == BlobSeqs(n - 1)
         IN shorter \cup
            {Append(s, b) : <<s, b>> \in
                {p \in shorter \X BlobUniverse :
                    /\ Len(p[1]) = n - 1
                    /\ \A i \in 1..Len(p[1]) :
                          p[1][i].versionedHash # p[2].versionedHash}}

\* What swarm.beeDebug.getAllPostageBatch() may resolve to.
PostageAnswers ==
    { <<>>,
      <<[batchID |-> Undefined]>>,
      <<[batchID |-> Undefined], [batchID |-> "batch1"]>>,
      <<[batchID |-> "batch1"]>> }

\* The chain ids env.CHAIN_ID takes in the model.
ChainIds == {1}

Backends == {"google", "swarm"}

\* ------------------------------------------------------------------- state

VARIABLES
    chainId,        \* env.CHAIN_ID
    bucketExists,   \* whether the bucket BUCKET_NAME exists in Google Storage
    gcs,            \* the bucket: a set of [key, data] objects, one per key
    swarm,          \* the references the Swarm node holds
    dbBlobs,        \* the rows of prisma.blob
    pc,             \* per request: the await the handler is suspended at
    input,          \* per request: input.blobs
    batches,        \* per request: what getAllPostageBatch() resolved to
    existing,       \* per request: the hashes the lookup found in prisma.blob
    uploads,        \* per request: the store calls issued, one entry per blob
    settled,        \* per request: blob indices in the order their uploads resolved
    uploadedBlobs,  \* per request: the value of `await Promise.all(uploadBlobsPromise)`
    error,          \* per request: what the mutation threw
    keyArgs,        \* the (chainId, versionedHash) given to storeBlob
    keyResults      \* the file names storeBlob returned for keyArgs

storageVars == <<chainId, bucketExists, gcs, swarm, dbBlobs>>

requestVars == <<pc, input, batches, existing, uploads, settled, uploadedBlobs, error>>

keyVars == <<keyArgs, keyResults>>

vars == <<chainId, bucketExists, gcs, swarm, dbBlobs, pc, input, batches, existing,
          uploads, settled, uploadedBlobs, error, keyArgs, keyResults>>

NoError == [kind |-> "none", cause |-> {}]

\* The swarmUploadData of an upload that has not resolved.
NoReference == <<>>

Range(s) == {s[i] : i \in 1..Len(s)}

\* ------------------------------------------------- helpers of the handler

\* calculateBlobSize(data): the bytes of a 0x-prefixed hex text.
calculateBlobSize(data) == Len(Slice(data, 2, Len(data))) \div 2

\* buildGoogleStorageUri(versionedHash): the file name under env.CHAIN_ID.
buildGoogleStorageUri(versionedHash) == storeBlobKey(chainId, versionedHash)

\* A postage check that looks at the number of batches only.
NoPostageLengthOnly(list) == Len(list) = 0

\* batches.length === 0 || batches[0]?.batchID === undefined
NoPostage(list) == Len(list) = 0 \/ list[1].batchID = Undefined

\* The versioned hashes of `blobs` that prisma.blob holds.
ExistingBlobHashes(blobs) ==
    {b.versionedHash : b \in Range(blobs)} \cap {row.id : row \in dbBlobs}

\* getNewBlobs: the blobs of the input that are not in the database, in input order.
getNewBlobs(blobs, known) ==
    SelectSeq(blobs, LAMBDA b : b.versionedHash \notin known)

\* An upload step that maps over input.blobs.
BlobsToUploadAll(newBlobs, blobs) == blobs

\* The blobs `newBlobs.map(async (b) => ...)` uploads.
BlobsToUpload(newBlobs, blobs) == newBlobs

\* file(key).save(data): the object at key is replaced.
GoogleSave(bucket, key, data) ==
    {o \in bucket : o.key # key} \cup {[key |-> key, data |-> data]}

\* The store calls of one blob, as `newBlobs.map` issues them.
IssueUploads(b) ==
    [b |-> b, google |-> "pending", swarm |-> "pending", reference |-> NoReference]

\* The object the async callback of `newBlobs.map` returns for one blob.
BlobRecord(u) ==
    [id |-> u.b.versionedHash,
     versionedHash |-> u.b.versionedHash,
     gsUri |-> buildGoogleStorageUri(u.b.versionedHash),
     swarmHash |-> u.reference,
     size |-> calculateBlobSize(u.b.data)]

BlobSettled(u) == u.google # "pending" /\ u.swarm # "pending"

BlobFulfilled(u) == u.google = "ok" /\ u.swarm = "ok"

BlobRejected(u) == u.google = "failed" \/ u.swarm = "failed"

\* A combinator that waits for every upload and never rejects.
PromiseAllSettledState(u) ==
    IF \A i \in 1..Len(u) : BlobSettled(u[i]) THEN "fulfilled" ELSE "pending"

\* Promise.all over the uploads: rejected with the first rejection, fulfilled
\* once every upload of every blob is.
PromiseAllState(u) ==
    IF \E i \in 1..Len(u) : BlobRejected(u[i]) THEN "rejected"
    ELSE IF \A i \in 1..Len(u) : BlobFulfilled(u[i]) THEN "fulfilled"
    ELSE "pending"

\* Values collected in the order the uploads resolved.
PromiseAllValuesInSettleOrder(u, order) ==
    [k \in 1..Len(u) |-> BlobRecord(u[order[k]])]

\* The value of Promise.all: the i-th value is that of the i-th promise.
PromiseAllValues(u, order) == [i \in 1..Len(u) |-> BlobRecord(u[i])]

\* The maximum in-flight write count the dispatcher is configured with.
MaxInFlight == 3

\* The store calls of request r that are issued and not completed.
InFlight(r) ==
    Cardinality({<<i, k>> \in (1..Len(uploads[r])) \X Backends :
                    uploads[r][i][k] = "pending"})

\* ------------------------------------------------- the index mutation

Init ==
    /\ chainId \in ChainIds
    /\ bucketExists \in BOOLEAN
    /\ gcs = {}
    /\ swarm = {}
    /\ dbBlobs = {}
    /\ pc = [r \in Requests |-> "idle"]
    /\ input = [r \in Requests |-> <<>>]
    /\ batches = [r \in Requests |-> <<>>]
    /\ existing = [r \in Requests |-> {}]
    /\ uploads = [r \in Requests |-> <<>>]
    /\ settled = [r \in Requests |-> <<>>]
    /\ uploadedBlobs = [r \in Requests |-> <<>>]
    /\ error = [r \in Requests |-> NoError]
    /\ keyArgs = [chainId |-> 1, versionedHash |-> H1]
    /\ keyResults = <<>>

\* The blobs of the requests received so far.
RECURSIVE SumLen(_, _)
SumLen(f, S) ==
    IF S = {} THEN 0
    ELSE LET x == CHOOSE y \in S : TRUE IN Len(f[x]) + SumLen(f, S \ {x})

BlobsReceived == SumLen(input, Requests)

\* The mutation is called: it asks the Swarm node for its postage batches.
Index(r, blobs) ==
    /\ pc[r] = "idle"
    /\ Len(blobs) + BlobsReceived <= MaxBlobs
    /\ pc' = [pc EXCEPT ![r] = "postage"]
    /\ input' = [input EXCEPT ![r] = blobs]
    /\ UNCHANGED <<batches, existing, uploads, settled, uploadedBlobs, error>>
    /\ UNCHANGED <<storageVars, keyVars>>

\* 1. getAllPostageBatch() resolves: throw if there is no usable batch, else
\*    start the lookups of step 2.
PostageReturns(r, answer) ==
    /\ pc[r] = "postage"
    /\ batches' = [batches EXCEPT ![r] = answer]
    /\ IF NoPostage(answer)
       THEN /\ pc' = [pc EXCEPT ![r] = "failed"]
            /\ error' = [error EXCEPT ![r] =
                            [kind |-> "NotAvailableSwarmPostages", cause |-> {}]]
       ELSE /\ pc' = [pc EXCEPT ![r] = "lookup"]
            /\ UNCHANGED error
    /\ UNCHANGED <<input, existing, uploads, settled, uploadedBlobs>>
    /\ UNCHANGED <<storageVars, keyVars>>

\* const batchId = batches[0].batchID
BatchId(r) == batches[r][1].batchID

\* An upload whose reference differs from call to call (an encrypted upload).
UploadFileReferencePerCall(r, b) ==
    <<b.data, buildGoogleStorageUri(b.versionedHash), BatchId(r), r>>

\* The reference swarm.bee.uploadFile(batchId, b.data, key, ...) resolves to:
\* the content address of the data under its file name.
UploadFileReference(r, b) == <<b.data, buildGoogleStorageUri(b.versionedHash)>>

\* 2-3. The lookups resolve; every store call of every new blob is issued at
\*      once. With nothing to upload, Promise.all([]) is fulfilled and the
\*      transaction of step 6 is issued.
LookupReturns(r) ==
    /\ pc[r] = "lookup"
    /\ LET known == ExistingBlobHashes(input[r])
           targets == BlobsToUpload(getNewBlobs(input[r], known), input[r])
       IN /\ existing' = [existing EXCEPT ![r] = known]
          /\ uploads' = [uploads EXCEPT ![r] =
                            [i \in 1..Len(targets) |-> IssueUploads(targets[i])]]
          /\ pc' = [pc EXCEPT ![r] =
                       IF targets = <<>> THEN "transaction" ELSE "upload"]
    /\ UNCHANGED <<input, batches, settled, uploadedBlobs, error>>
    /\ UNCHANGED <<storageVars, keyVars>>

\* A handler that, when its uploads reject, aborts the store calls still in
\* flight for the other blobs.
SettleWithCancel(r, i, backend, u) ==
    LET order == IF BlobFulfilled(u[i]) THEN Append(settled[r], i) ELSE settled[r]
        state == PromiseAllState(u)
        aborted == [j \in 1..Len(u) |->
                       [u[j] EXCEPT !.google = IF @ = "pending" THEN "failed" ELSE @,
                                    !.swarm = IF @ = "pending" THEN "failed" ELSE @]]
    IN /\ settled' = [settled EXCEPT ![r] = order]
       /\ IF pc[r] = "upload" /\ state = "rejected"
          THEN /\ pc' = [pc EXCEPT ![r] = "failed"]
               /\ error' = [error EXCEPT ![r] =
                               [kind |-> "WriteFailed",
                                cause |-> {<<u[i].b.versionedHash, backend>>}]]
               /\ uploads' = [uploads EXCEPT ![r] = aborted]
               /\ UNCHANGED uploadedBlobs
          ELSE IF pc[r] = "upload" /\ state = "fulfilled"
          THEN /\ pc' = [pc EXCEPT ![r] = "transaction"]
               /\ uploadedBlobs' = [uploadedBlobs EXCEPT ![r] =
                                       PromiseAllValues(u, order)]
               /\ uploads' = [uploads EXCEPT ![r] = u]
               /\ UNCHANGED error
          ELSE /\ uploads' = [uploads EXCEPT ![r] = u]
               /\ UNCHANGED <<pc, error, uploadedBlobs>>
       /\ UNCHANGED <<input, batches, existing>>

\* What the handler does once the store call `backend` of blob i has completed
\* and left the uploads of r as u: the reactions of both Promise.all run in the
\* same tick, and with them the throw, or steps 4-6 up to the transaction.
Settle(r, i, backend, u) ==
    LET order == IF BlobFulfilled(u[i]) THEN Append(settled[r], i) ELSE settled[r]
        state == PromiseAllState(u)
    IN /\ uploads' = [uploads EXCEPT ![r] = u]
       /\ settled' = [settled EXCEPT ![r] = order]
       /\ IF pc[r] = "upload" /\ state = "rejected"
          THEN /\ pc' = [pc EXCEPT ![r] = "failed"]
               /\ error' = [error EXCEPT ![r] =
                               [kind |-> "WriteFailed",
                                cause |-> {<<u[i].b.versionedHash, backend>>}]]
               /\ UNCHANGED uploadedBlobs
          ELSE IF pc[r] = "upload" /\ state = "fulfilled"
          THEN /\ pc' = [pc EXCEPT ![r] = "transaction"]
               /\ uploadedBlobs' = [uploadedBlobs EXCEPT ![r] =
                                       PromiseAllValues(u, order)]
               /\ UNCHANGED error
          ELSE UNCHANGED <<pc, error, uploadedBlobs>>
       /\ UNCHANGED <<input, batches, existing>>

\* storage.bucket(BUCKET_NAME).file(key).save(b.data) settles.
GoogleSaveCompletes(r, i, ok) ==
    /\ i \in 1..Len(uploads[r])
    /\ uploads[r][i].google = "pending"
    /\ ok => bucketExists
    /\ LET b == uploads[r][i].b
           u == [uploads[r] EXCEPT ![i].google = IF ok THEN "ok" ELSE "failed"]
       IN /\ gcs' = IF ok
                    THEN GoogleSave(gcs, buildGoogleStorageUri(b.versionedHash), b.data)
                    ELSE gcs
          /\ Settle(r, i, "google", u)
    /\ UNCHANGED <<chainId, bucketExists, swarm, dbBlobs, keyVars>>

\* swarm.bee.uploadFile(batchId, b.data, key, ...) settles.
SwarmUploadCompletes(r, i, ok) ==
    /\ i \in 1..Len(uploads[r])
    /\ uploads[r][i].swarm = "pending"
    /\ LET b == uploads[r][i].b
           ref == UploadFileReference(r, b)
           u == IF ok
                THEN [uploads[r] EXCEPT ![i].swarm = "ok", ![i].reference = ref]
                ELSE [uploads[r] EXCEPT ![i].swarm = "failed"]
       IN /\ swarm' = IF ok THEN swarm \cup {ref} ELSE swarm
          /\ Settle(r, i, "swarm", u)
    /\ UNCHANGED <<chainId, bucketExists, gcs, dbBlobs, keyVars>>

\* 6. prisma.$transaction([...]) settles. blob.createMany has no
\*    skipDuplicates: a row whose id is taken fails the transaction.
TransactionCompletes(r) ==
    /\ pc[r] = "transaction"
    /\ IF \E row \in Range(uploadedBlobs[r]) : row.id \in {x.id : x \in dbBlobs}
       THEN /\ pc' = [pc EXCEPT ![r] = "failed"]
            /\ error' = [error EXCEPT ![r] =
                            [kind |-> "UniqueConstraintFailed", cause |-> {}]]
            /\ UNCHANGED dbBlobs
       ELSE /\ pc' = [pc EXCEPT ![r] = "done"]
            /\ dbBlobs' = dbBlobs \cup Range(uploadedBlobs[r])
            /\ UNCHANGED error
    /\ UNCHANGED <<input, batches, existing, uploads, settled, uploadedBlobs>>
    /\ UNCHANGED <<chainId, bucketExists, gcs, swarm, keyVars>>

Next ==
    \/ \E r \in Requests, blobs \in BlobSeqs(MaxBlobs) : Index(r, blobs)
    \/ \E r \in Requests, answer \in PostageAnswers : PostageReturns(r, answer)
    \/ \E r \in Requests : LookupReturns(r)
    \/ \E r \in Requests, i \in 1..MaxBlobs, ok \in BOOLEAN :
          GoogleSaveCompletes(r, i, ok)
    \/ \E r \in Requests, i \in 1..MaxBlobs, ok \in BOOLEAN :
          SwarmUploadCompletes(r, i, ok)
    \/ \E r \in Requests : TransactionCompletes(r)

Spec == Init /\ [][Next]_vars

\* ------------------------------------------------- storeBlob on its own

KeyChainIds == {1, 5, 10, 100, 1337, 17000, 42161, 560048, 11155111}

KeyHashes == {H1, H2, H3, BLOB_HASH}

InitKey ==
    /\ chainId = 1
    /\ bucketExists = TRUE
    /\ gcs = {}
    /\ swarm = {}
    /\ dbBlobs = {}
    /\ pc = [r \in Requests |-> "idle"]
    /\ input = [r \in Requests |-> <<>>]
    /\ batches = [r \in Requests |-> <<>>]
    /\ existing = [r \in Requests |-> {}]
    /\ uploads = [r \in Requests |-> <<>>]
    /\ settled = [r \in Requests |-> <<>>]
    /\ uploadedBlobs = [r \in Requests |-> <<>>]
    /\ error = [r \in Requests |-> NoError]
    /\ keyArgs \in [chainId : KeyChainIds, versionedHash : KeyHashes]
    /\ keyResults = <<>>

\* storeBlob(chainId, versionedHash, data) is called, a first and a second time.
StoreBlob ==
    /\ Len(keyResults) < 2
    /\ keyResults' = Append(keyResults,
                            storeBlobKey(keyArgs.chainId, keyArgs.versionedHash))
    /\ UNCHANGED <<keyArgs, storageVars, requestVars>>

NextKey == StoreBlob

SpecKey == InitKey /\ [][NextKey]_vars

\* ------------------------------------------------------------------ claims

\* The segments of a text between the separators sep.
RECURSIVE Split(_, _)
Split(s, sep) ==
    IF \A i \in 1..Len(s) : s[i] # sep THEN <<s>>
    ELSE LET k == CHOOSE i \in 1..Len(s) :
                     s[i] = sep /\ \A j \in 1..(i - 1) : s[j] # sep
         IN <<SubSeq(s, 1, k - 1)>> \o Split(SubSeq(s, k + 1, Len(s)), sep)

DigitValue(c) == (CHOOSE d \in 1..10 : DigitChar[d] = c) - 1

\* The number a decimal text denotes.
RECURSIVE ParseDecimal(_)
ParseDecimal(t) ==
    IF Len(t) = 0 THEN 0
    ELSE 10 * ParseDecimal(SubSeq(t, 1, Len(t) - 1)) + DigitValue(t[Len(t)])

IsDecimalText(t) ==
    /\ Len(t) > 0
    /\ \A i \in 1..Len(t) : \E d \in 1..10 : DigitChar[d] = t[i]

\* The key has the shape c/H[0..1]/H[2..3]/H[4..5]/H.txt for chain id c and hash 0xH.
KeyShape(key, c, hash) ==
    LET seg == Split(key, "/")
        h == SubSeq(hash, 3, Len(hash))
    IN /\ Len(seg) = 5
       /\ IsDecimalText(seg[1]) /\ ParseDecimal(seg[1]) = c
       /\ seg[2] = <<h[1], h[2]>>
       /\ seg[3] = <<h[3], h[4]>>
       /\ seg[4] = <<h[5], h[6]>>
       /\ seg[5] = h \o <<".", "t", "x", "t">>
       /\ \A i \in 1..Len(h) : h[i] \in HexChars

\* C5: every key storeBlob(c, 0xH, data) returns is c/H[0..1]/H[2..3]/H[4..5]/H.txt,
\* a second call for the same (c, 0xH) returns the key of the first, and the key
\* of the storage test's BLOB_HASH under its chain id is the test's snapshot.
C5_StorageKeyShape ==
    /\ \A k \in 1..Len(keyResults) :
          /\ KeyShape(keyResults[k], keyArgs.chainId, keyArgs.versionedHash)
          /\ keyResults[k] = keyResults[1]
    /\ keyArgs.versionedHash = BLOB_HASH /\ Len(keyResults) > 0 =>
          SubSeq(keyResults[1], Len(NumberToString(keyArgs.chainId)) + 1,
                 Len(keyResults[1]))
             = SubSeq(FILE_SNAPSHOT, Len(TEST_CHAIN_ID_TEXT) + 1, Len(FILE_SNAPSHOT))
    /\ Len(keyResults) > 0 =>
          buildBlobFileName(TEST_CHAIN_ID_TEXT, BLOB_HASH) = FILE_SNAPSHOT

\* C5 witness: storeBlob was called twice with the test's BLOB_HASH.
C5_Witness ==
    /\ Len(keyResults) = 2
    /\ keyArgs.versionedHash = BLOB_HASH
    /\ keyArgs.chainId = 1337

\* The handler of r has issued its database transaction.
TransactionIssued(r) ==
    pc[r] \in {"transaction", "done"} \/ error[r].kind = "UniqueConstraintFailed"

\* The handler of r has received the answer of getAllPostageBatch().
PostageAnswered(r) == pc[r] \notin {"idle", "postage"}

\* The Swarm node reports no postage batch, or a first batch without an id.
ZeroWriteCapacity(list) == list = <<>> \/ list[1].batchID = Undefined

HashesOf(blobs) == {blobs[i].versionedHash : i \in 1..Len(blobs)}

\* C1: a request with a non-empty input whose postage answer holds no usable
\* batch has failed with the postage error, and has issued no store call to
\* Google Storage or Swarm and no database transaction.
C1_NoPostageFailsBeforeAnyWrite ==
    \A r \in Requests :
        PostageAnswered(r) /\ ZeroWriteCapacity(batches[r]) /\ Len(input[r]) > 0 =>
            /\ pc[r] = "failed"
            /\ error[r].kind = "NotAvailableSwarmPostages"
            /\ uploads[r] = <<>>
            /\ uploadedBlobs[r] = <<>>
            /\ ~TransactionIssued(r)

\* C1 witness: a request with blobs failed on a first batch without an id.
C1_Witness ==
    \E r \in Requests :
        /\ pc[r] = "failed"
        /\ Len(input[r]) > 0
        /\ batches[r] = <<[batchID |-> Undefined], [batchID |-> "batch1"]>>

\* C2: once a store call of any blob of a request has failed, the request has
\* failed with the write error, holds no blob record and has issued no
\* transaction; and every blob record a request holds belongs to a blob of
\* its uploads whose two store calls succeeded, with the key saved in the
\* bucket as gsUri and the reference Swarm holds as swarmHash.
C2_AllOrNothingWrite ==
    \A r \in Requests :
        /\ (\E i \in 1..Len(uploads[r]) : BlobRejected(uploads[r][i])) =>
              /\ pc[r] = "failed"
              /\ error[r].kind = "WriteFailed"
              /\ uploadedBlobs[r] = <<>>
              /\ ~TransactionIssued(r)
        /\ \A k \in 1..Len(uploadedBlobs[r]) :
              \E i \in 1..Len(uploads[r]) :
                  /\ uploads[r][i].b.versionedHash = uploadedBlobs[r][k].versionedHash
                  /\ uploads[r][i].google = "ok"
                  /\ uploads[r][i].swarm = "ok"
                  /\ \E o \in gcs : o.key = uploadedBlobs[r][k].gsUri
                  /\ uploadedBlobs[r][k].swarmHash \in swarm
        /\ pc[r] = "done" => Range(uploadedBlobs[r]) \subseteq dbBlobs

\* C2 witness: a request failed on the Swarm upload of one blob while both
\* store calls of another of its blobs succeeded.
C2_Witness ==
    \E r \in Requests :
        \E i, j \in 1..Len(uploads[r]) :
            /\ pc[r] = "failed"
            /\ uploads[r][i].swarm = "failed" /\ uploads[r][i].google = "ok"
            /\ BlobFulfilled(uploads[r][j])

\* C3: a blob of the input whose hash the lookup found in the database has no
\* store call and no record; a request whose blobs are all known has no store
\* call and an empty record sequence.
C3_KnownBlobsNotWritten ==
    \A r \in Requests :
        /\ \A h \in existing[r] :
              /\ \A i \in 1..Len(uploads[r]) : uploads[r][i].b.versionedHash # h
              /\ \A k \in 1..Len(uploadedBlobs[r]) : uploadedBlobs[r][k].versionedHash # h
        /\ (pc[r] \notin {"idle", "postage", "lookup"}
               /\ HashesOf(input[r]) \subseteq existing[r]) =>
              uploads[r] = <<>> /\ uploadedBlobs[r] = <<>>

\* C3 witness: a request whose only blob was known has ended without a store call.
C3_Witness ==
    \E r \in Requests :
        /\ pc[r] = "done"
        /\ Len(input[r]) = 1
        /\ HashesOf(input[r]) = existing[r]
        /\ uploads[r] = <<>>

\* The blobs of the input of r that the lookup did not find, in input order.
NewOfInput(r) == SelectSeq(input[r], LAMBDA b : b.versionedHash \notin existing[r])

\* C4: the records a request awaits the transaction with, or has committed,
\* are those of its new blobs in input order: the i-th record has the hash,
\* the size and the Swarm reference of the i-th new blob.
C4_OrderPreserved ==
    \A r \in Requests :
        pc[r] \in {"transaction", "done"} \/ uploadedBlobs[r] # <<>> =>
            /\ Len(uploadedBlobs[r]) = Len(NewOfInput(r))
            /\ \A i \in 1..Len(uploadedBlobs[r]) :
                  /\ uploadedBlobs[r][i].versionedHash = NewOfInput(r)[i].versionedHash
                  /\ uploadedBlobs[r][i].id = NewOfInput(r)[i].versionedHash
                  /\ uploadedBlobs[r][i].swarmHash[1] = NewOfInput(r)[i].data
                  /\ 2 * uploadedBlobs[r][i].size = Len(NewOfInput(r)[i].data) - 2

\* C4 witness: a request has its records although the uploads of its second
\* blob resolved before those of its first.
C4_Witness ==
    \E r \in Requests :
        /\ pc[r] \in {"transaction", "done"}
        /\ settled[r] = <<2, 1>>

\* The store calls issued so far: (request, index of the blob in its uploads).
AllUploads == {x \in Requests \X (1..MaxBlobs) : x[2] <= Len(uploads[x[1]])}

UploadAt(x) == uploads[x[1]][x[2]]

KeyOf(u) == buildGoogleStorageUri(u.b.versionedHash)

\* The store calls of r that failed, as (blob hash, backend) pairs.
FailedWrites(r) ==
    {<<uploads[r][i].b.versionedHash, k>> :
        <<i, k>> \in {y \in (1..Len(uploads[r])) \X Backends :
                         uploads[r][y[1]][y[2]] = "failed"}}

AllFulfilled(r) ==
    uploads[r] # <<>> /\ \A i \in 1..Len(uploads[r]) : BlobFulfilled(uploads[r][i])

\* C6: while the bucket of the object store is missing, or the postage answer
\* of a request holds no usable batch, the request has issued no store call.
C6_UnhealthyBackendFailsFast ==
    \A r \in Requests :
        ~bucketExists \/ (PostageAnswered(r) /\ ZeroWriteCapacity(batches[r])) =>
            uploads[r] = <<>>

\* C7: the error of a request that failed on its writes references exactly the
\* (blob hash, backend) pairs of its store calls that failed.
C7_ErrorListsEveryFailedWrite ==
    \A r \in Requests :
        error[r].kind = "WriteFailed" => error[r].cause = FailedWrites(r)

C9_ConcurrentBatchesConverge ==
    \A x, y \in AllUploads :
        (/\ x[1] # y[1]
         /\ UploadAt(x).b = UploadAt(y).b
         /\ AllFulfilled(x[1]) /\ AllFulfilled(y[1])
         /\ pc[x[1]] \in {"done", "failed"} /\ pc[y[1]] \in {"done", "failed"}) =>
            /\ pc[x[1]] = "done" /\ pc[y[1]] = "done"
            /\ [key |-> KeyOf(UploadAt(x)), data |-> UploadAt(x).b.data] \in gcs
            /\ UploadAt(x).reference \in swarm

\* C10: the store calls of a request that are issued and not completed are
\* never more than the configured maximum.
C10_InFlightBounded == \A r \in Requests : InFlight(r) <= MaxInFlight

\* ------------------------------------------- a store call that never settles

\* The index mutation when a Swarm upload may stay pending for ever: the
\* answers of the Swarm debug API, of the database and of Google Storage
\* arrive, and nothing makes bee.uploadFile settle.
SpecHang ==
    /\ Init
    /\ [][Next]_vars
    /\ \A r \in Requests :
          /\ WF_vars(\E answer \in PostageAnswers : PostageReturns(r, answer))
          /\ WF_vars(LookupReturns(r))
          /\ WF_vars(\E i \in 1..MaxBlobs, ok \in BOOLEAN : GoogleSaveCompletes(r, i, ok))
          /\ WF_vars(TransactionCompletes(r))

\* The handler of r has left the await of its uploads.
BatchWriteEnded(r) == pc[r] \in {"transaction", "done", "failed"}

\* C11: a request that awaits its uploads eventually stops awaiting them (it
\* fails on its deadline when a store call never settles), and a request that
\* failed while awaiting them has issued no transaction.
C11_BatchWriteTerminates ==
    \A r \in Requests :
        /\ (pc[r] = "upload") ~> BatchWriteEnded(r)
        /\ [](error[r].kind = "WriteFailed" => ~TransactionIssued(r))

\* The store calls of r whose status differs between the two states of a step.
StatusChanges(r) ==
    {y \in (1..Len(uploads[r])) \X Backends :
        uploads[r][y[1]][y[2]] # uploads'[r][y[1]][y[2]]}

\* The step is one of the handler of r, or of a store call of r settling.
StepOf(r) == pc'[r] # pc[r] \/ uploads'[r] # uploads[r]

\* C12: no step deletes from a backend: Swarm keeps every reference, and an
\* object of the bucket stays unless a save to its own key succeeds in the
\* step. In the step that reports the write failure of a request, and in every
\* later step of that request, what its succeeded store calls stored stays as
\* it is, and its store calls in flight are left alone: none is dropped, at
\* most the one that settles in the step changes, from pending to its outcome.
C12_NoCompensatingRollback ==
    [][
        /\ swarm \subseteq swarm'
        /\ \A o \in gcs :
              o \in gcs' \/
              \E x \in AllUploads :
                  /\ KeyOf(UploadAt(x)) = o.key
                  /\ UploadAt(x).google = "pending"
                  /\ uploads'[x[1]][x[2]].google = "ok"
        /\ \A r \in Requests :
              error'[r].kind = "WriteFailed" /\ StepOf(r) =>
                  /\ Len(uploads'[r]) = Len(uploads[r])
                  /\ Cardinality(StatusChanges(r)) <= 1
                  /\ \A y \in StatusChanges(r) :
                        /\ uploads[r][y[1]][y[2]] = "pending"
                        /\ uploads'[r][y[1]][y[2]] \in {"ok", "failed"}
                  /\ \A i \in 1..Len(uploads[r]) :
                        /\ uploads'[r][i].b = uploads[r][i].b
                        /\ uploads[r][i].google = "ok" =>
                              LET o == [key |-> KeyOf(uploads[r][i]),
                                        data |-> uploads[r][i].b.data]
                              IN o \in gcs => o \in gcs'
                        /\ uploads[r][i].swarm = "ok" =>
                              /\ uploads'[r][i].reference = uploads[r][i].reference
                              /\ uploads[r][i].reference \in swarm'
    ]_vars

\* C12 witness: a request failed on the Swarm upload of one blob after Google
\* Storage had stored it, the object is in the bucket, and a store call of
\* its other blob is still in flight.
C12_Witness ==
    \E r \in Requests :
        \E i, j \in 1..Len(uploads[r]) :
            /\ pc[r] = "failed"
            /\ error[r] = [kind |-> "WriteFailed",
                           cause |-> {<<uploads[r][i].b.versionedHash, "swarm">>}]
            /\ uploads[r][i].google = "ok"
            /\ [key |-> KeyOf(uploads[r][i]), data |-> uploads[r][i].b.data] \in gcs
            /\ i # j
            /\ uploads[r][j].google = "pending"
            /\ uploads[r][j].swarm = "ok"

====
